---- MODULE Spec2Model ----
(***************************************************************************)
(* Cache-population coordination layer of the ad observatory backend:      *)
(* src/common/caching.py (acquire_lock, the two "blocking duplicate        *)
(* generation" decorators, the cache_clear endpoint) together with the     *)
(* primitives it drives: threading.Lock, the redis-py lock taken on the    *)
(* cache's own redis client, and the flask-caching memoize wrapper.        *)
(*                                                                         *)
(* One thread = one caller.  A caller performs one call at a time: a raw   *)
(* `with acquire_lock(name, blocking_timeout)` ("lock"), a call of a       *)
(* function wrapped by memoize_response_blocking_... ("memoize") or a call *)
(* of a function wrapped by cache_response_blocking_... ("cached").        *)
(*                                                                         *)
(* Beside it, each with its own variables and specification: start-up      *)
(* (main.init_cache), the cache keys of the memoized query functions of    *)
(* google_dashboard/queries.py, the response filter of the cached views,   *)
(* the store's timeouts, the names locks and values get in redis, the lock *)
(* table by name (exclusion per name, progress of waiting callers), and    *)
(* the cache instances the blueprints decorate their handlers with.        *)
(***************************************************************************)
EXTENDS Integers, FiniteSets, Sequences, TLC

\* ---------------------------------------------------------------- bounds
\* longest `name` handed to acquire_lock, in characters
MaxNameLen == 1
\* longest cache key of a stored value, in characters
MaxKeyLen == 5
\* last tick of the store's clock
MaxTime == 4
\* longest timeout a decorator passes, in ticks
MaxTtl == 2
\* arguments beside the required ones that a call of a query function writes out
MaxArgs == 2
NThreads == 2
NKeys == 1
\* longest positive blocking_timeout a caller passes, counted in retry sleeps
MaxWait == 1
\* saturation point of the per-key count of executions of f
MaxRuns == 2

Threads == 1..NThreads
Keys == 1..NKeys
NoThread == 0

\* ---------------------------------------------------------------- values
\* Python values are tagged so that values of different types never compare.
None == <<"None">>
Miss == <<"miss">>
NoValue == <<"novalue">>
MemoValues == {<<"val", "a">>, <<"val", "b">>}
Responses == {<<"resp", 200>>, <<"resp", 500>>}

\* What the wrapped function f may return, per kind of call.
FResults(o) ==
  IF o = "memoize" THEN MemoValues \cup {None}
  ELSE IF o = "cached" THEN Responses
  ELSE {None}

Ops == {"lock", "memoize", "cached"}
Decorated == {"memoize", "cached"}
BlockingTimeouts == {-1, 0, MaxWait}

\* A threading.Lock object is identified by the lock name it was made for and
\* the thread that made it (a thread makes at most one per name).
Mutexes == Keys \X Threads
NoMutex == <<0, 0>>

VARIABLES
  os_environ,       \* names of the variables set in os.environ (fixed at start)
  CACHE_TYPE,       \* cache_config['CACHE_TYPE'] handed to init_app, "unset" before
  IN_MEMORY_LOCKS,  \* lock name -> threading.Lock object, or NoMutex
  mutex_owner,      \* threading.Lock object -> thread that holds it, or NoThread
  redis_lock,       \* lock name -> owner token of the redis lock key, or NoThread
  cache,            \* cache key -> stored value, or Miss
  pc,               \* per thread: position in the call
  op,               \* per thread: kind of call
  key,              \* per thread: `name` / cache_key of the call
  bt,               \* per thread: blocking_timeout
  lock,             \* per thread: local `lock` (local variant)
  acquired,         \* per thread: local `acquired` / the with-body was entered
  waited,           \* per thread: retry sleeps spent so far in the redis acquire loop
  rv,               \* per thread: value the call returned
  exc,              \* per thread: exception the call raised ("none" if none)
  \* history variables (observations, not program state)
  ran_f,            \* per thread: f was executed in this call
  hit_at_start,     \* per thread: the cache held the key when the call began
  prior,            \* per thread: value an earlier call had returned for the key
  dropped,          \* per thread: entry expired / cache cleared since the call began
  returned,         \* per key: value returned by a finished memoize call, since last expiry/clear
  f_runs,           \* per key: executions of f that returned a cacheable value, since last expiry/clear
  \* a call of a memoized query function of queries.py, as written
  query_fn,         \* the function called
  args,             \* positional arguments after the session, in order
  kwargs,           \* keyword arguments as <<name, value>>, in the order written
  query_key,        \* the cache key made for the call
  \* views decorated with global_cache.cached(response_filter=...)
  view_resp,        \* what the last call of a view returned, or NoValue
  filter_result,    \* what response_filter gave for it, "hit" if it was not called
  view_cache,       \* view -> cached response, or Miss
  \* the cache store under the clock
  clock,            \* the store's time, in ticks
  entry,            \* the store's entry for a key, or Miss
  got,              \* last decorated call: <<"hit" or "computed", value, its age, its ttl>>
  replaced,         \* what the store held for the key when f last ran, or Miss
  \* names in the redis keyspace
  deployment_prefix,\* cache_key_prefix(): the deployment's prefix, or None
  name,             \* the `name` handed to acquire_lock, as characters
  value_key,        \* the key flask-caching stores a value under, as characters
  full_lock_name,   \* the lock name acquire_lock builds for name
  store_key,        \* the redis key the value of value_key is kept under
  \* callers of acquire_lock by the name they pass
  caller_name,      \* per caller: the `name` of its acquire_lock, or NoValue
  caller_pc,        \* per caller: "idle", "acquire" (waiting for the lock) or "body"
  locked,           \* the full lock names whose lock is held
  \* the server's cache instances and its handlers
  initialised,      \* the flask-caching Cache instances init_app has been called on
  served            \* handler -> whether its last request found its cache initialised

shared == <<os_environ, CACHE_TYPE, IN_MEMORY_LOCKS, mutex_owner, redis_lock, cache>>
locals == <<pc, op, key, bt, lock, acquired, waited, rv, exc>>
history == <<ran_f, hit_at_start, prior, dropped, returned, f_runs>>
core == <<shared, locals, history>>
keyvars == <<query_fn, args, kwargs, query_key>>
filtervars == <<view_resp, filter_result, view_cache>>
ttlvars == <<clock, entry, got, replaced>>
ksvars == <<deployment_prefix, name, value_key, full_lock_name, store_key>>
namevars == <<caller_name, caller_pc, locked>>
servervars == <<initialised, served>>
aux == <<keyvars, filtervars, ttlvars, ksvars, namevars, servervars>>
vars == <<core, aux>>

\* ---------------------------------------------------------------- helpers
\* The environment variables the cache configuration looks at.
EnvVars == {"REDIS_HOST", "REDIS_PORT"}

\* caching.py:57-58   'REDIS_HOST' in os.environ and 'REDIS_PORT' in os.environ
has_redis_cache_env_vars == "REDIS_HOST" \in os_environ /\ "REDIS_PORT" \in os_environ

\* The networked variant of acquire_lock is selected (caching.py:67).
redis_env == has_redis_cache_env_vars

\* Variant of cache_type that takes either variable alone as enough.
cache_type_either_var(environ) ==
  IF "REDIS_HOST" \in environ \/ "REDIS_PORT" \in environ
    THEN "RedisCache" ELSE "SimpleCache"

\* main.py:41-44, and the same at caching.py:178-181: CACHE_TYPE is
\* 'SimpleCache' unless both variables are set, then 'RedisCache'.
cache_type(environ) ==
  IF "REDIS_HOST" \in environ /\ "REDIS_PORT" \in environ
    THEN "RedisCache" ELSE "SimpleCache"

\* caching.py:66   blocking = blocking_timeout == -1
blocking(blocking_timeout) == blocking_timeout = -1

\* flask-caching memoize treats a stored None as a miss (cache_none=False).
CacheHit(v) == v # Miss /\ v # None

\* Variant of cache_if_response_no_server_error without the upper limit.
cache_if_response_status_200_or_more(r) ==
  IF r[1] # "resp" THEN "AttributeError"
  ELSE IF r[2] >= 200 THEN "True" ELSE "False"

\* caching.py:34-42 (the debug call at 36-37 reads resp.status_code first)
cache_if_response_no_server_error(resp) ==
  IF resp[1] # "resp" THEN "AttributeError"
  ELSE IF resp[2] >= 200 /\ resp[2] < 500 THEN "True" ELSE "False"

\* Variant of redis_blocking_timeout without lines 68-69: -1 is handed on as is.
redis_blocking_timeout_unconverted(blocking_timeout) == <<"int", blocking_timeout>>

\* caching.py:68-69   -1 becomes None before it is handed to redis-py
redis_blocking_timeout(blocking_timeout) ==
  IF blocking_timeout = -1 THEN None ELSE <<"int", blocking_timeout>>

\* threading.Lock.acquire(blocking, timeout) as called at caching.py:86.
\* A timeout other than -1 on a non-blocking call is rejected with ValueError;
\* a blocking call on a held lock blocks (timeout -1) or gives up (timeout >= 0).
threading_acquire(is_blocking, timeout, free) ==
  IF ~is_blocking /\ timeout # -1 THEN "ValueError"
  ELSE IF free THEN "True"
  ELSE IF is_blocking /\ timeout = -1 THEN "block"
  ELSE "False"

\* redis-py Lock.acquire as entered at caching.py:71: SET NX, then sleep and
\* retry until blocking_timeout is used up (None: retry for ever).
redis_acquire(timeout, free, slept) ==
  IF free THEN "True"
  ELSE IF timeout = None THEN "block"
  ELSE IF slept < timeout[2] THEN "sleep"
  ELSE "False"

\* Variant of reraised whose except clause catches every redis error.
reraised_any_redis_error(e) ==
  IF e \in {"redis.LockError", "redis.ConnectionError"} THEN "LockError" ELSE e

\* caching.py:70-75: what leaves the try block for an exception e raised inside
\* it: `except redis.exceptions.LockError as e: raise LockError from e`; any
\* other exception passes through.
reraised(e) == IF e = "redis.LockError" THEN "LockError" ELSE e

Set(f, t, v) == [f EXCEPT ![t] = v]

Min(a, b) == IF a < b THEN a ELSE b

\* History bookkeeping when the entries of the keys in K leave the cache.
Forget(K) ==
  /\ dropped' = [t \in Threads |-> dropped[t] \/ (pc[t] # "idle" /\ key[t] \in K)]
  /\ returned' = [k \in Keys |-> IF k \in K THEN NoValue ELSE returned[k]]
  /\ f_runs' = [k \in Keys |-> IF k \in K THEN 0 ELSE f_runs[k]]

\* ---------------------------------------------------------------- Init
\* Everything but the environment and the cache configuration.
InitRest ==
  /\ IN_MEMORY_LOCKS = [k \in Keys |-> NoMutex]
  /\ mutex_owner = [m \in Mutexes |-> NoThread]
  /\ redis_lock = [k \in Keys |-> NoThread]
  /\ cache = [k \in Keys |-> Miss]
  /\ pc = [t \in Threads |-> "idle"]
  /\ op = [t \in Threads |-> "lock"]
  /\ key = [t \in Threads |-> 0]
  /\ bt = [t \in Threads |-> -1]
  /\ lock = [t \in Threads |-> NoMutex]
  /\ acquired = [t \in Threads |-> FALSE]
  /\ waited = [t \in Threads |-> 0]
  /\ rv = [t \in Threads |-> NoValue]
  /\ exc = [t \in Threads |-> "none"]
  /\ ran_f = [t \in Threads |-> FALSE]
  /\ hit_at_start = [t \in Threads |-> FALSE]
  /\ prior = [t \in Threads |-> NoValue]
  /\ dropped = [t \in Threads |-> FALSE]
  /\ returned = [k \in Keys |-> NoValue]
  /\ f_runs = [k \in Keys |-> 0]

\* No query function has been called.
KeyIdle ==
  /\ query_fn = "none"
  /\ args = <<>>
  /\ kwargs = <<>>
  /\ query_key = NoValue

\* The views a response filter guards, and the status codes and the one
\* return value without a status_code that their handlers produce.
Views == {"/a", "/b"}
StatusCodes == {100, 199, 200, 201, 302, 404, 499, 500, 503}
HandlerResults == {<<"resp", c>> : c \in StatusCodes} \cup {<<"val", "a">>}

\* No view has been called.
FilterIdle ==
  /\ view_resp = NoValue
  /\ filter_result = "none"
  /\ view_cache = [v \in Views |-> Miss]

\* The store is empty and the clock at zero.
TtlIdle ==
  /\ clock = 0
  /\ entry = Miss
  /\ got = NoValue
  /\ replaced = Miss

\* Variant of LOCK_NAME_PREFIX without the '::' separator.
LOCK_NAME_PREFIX_no_separator == <<"l", "o", "c", "k">>

\* caching.py:24   LOCK_NAME_PREFIX = 'lock::', as characters
LOCK_NAME_PREFIX == <<"l", "o", "c", "k", ":", ":">>

\* caching.py:64   ''.join(filter(None, [cache_key_prefix(), LOCK_NAME_PREFIX,
\* name])): None and the empty string are filtered out, the rest is joined.
Part(x) == IF x = None THEN <<>> ELSE x

\* Variant of acquire_lock_full_lock_name that leaves the name out.
acquire_lock_full_lock_name_without_name(prefix, n) ==
  Part(prefix) \o Part(LOCK_NAME_PREFIX)

acquire_lock_full_lock_name(prefix, n) == Part(prefix) \o Part(LOCK_NAME_PREFIX) \o Part(n)

\* main.py:47-50 (caching.py:184): CACHE_KEY_PREFIX is the deployment's prefix;
\* the redis store keeps the value of a cache key under prefix + key.
redis_store_key(prefix, k) == Part(prefix) \o k

\* Characters of memoize keys (base64 of a digest), of which these spell the
\* lock prefix; a view's key is request.path, which begins with '/', followed
\* by a hex digest; a name handed to acquire_lock may be anything.
KeyChars == {"l", "o", "c", "k"}
PathChars == KeyChars \cup {":"}
NameChars == KeyChars \cup {":", "/"}

\* No lock name and no value key has been made: off App Engine, empty names.
KsIdle ==
  /\ deployment_prefix = None
  /\ name = <<>>
  /\ value_key = <<>>
  /\ full_lock_name = acquire_lock_full_lock_name(None, <<>>)
  /\ store_key = redis_store_key(None, <<>>)

\* No caller is in acquire_lock by name.
NameIdle ==
  /\ caller_name = [t \in Threads |-> NoValue]
  /\ caller_pc = [t \in Threads |-> "idle"]
  /\ locked = {}

\* The two module-level Cache() instances: common/caching.py:22 and
\* common/cache.py:5.
CachingGlobalCache == "common.caching.global_cache"
CacheGlobalCache == "common.cache.global_cache"
CacheInstances == {CachingGlobalCache, CacheGlobalCache}

\* Handlers and memoized helpers of the three blueprints init_server registers
\* (main.py:74-81), each with the Cache instance its decorator belongs to:
\* ad_observatory_api.py:106, 126-129, 149-152 (cache.global_cache),
\* ads_search.py:115, 140-144 and google_dashboard/blueprint.py:63-69
\* (caching.global_cache).
Handlers ==
  [h \in {"ad_observatory_api.generate_time_periods",
          "ad_observatory_api.get_top_spenders_for_region",
          "ad_observatory_api.get_page_data"} |-> CacheGlobalCache] @@
  [h \in {"ads_search.make_language_code_to_name_map",
          "ads_search.get_filter_options",
          "google_dashboard.top_political_advertisers_since_date"} |-> CachingGlobalCache]

HandlerNames == DOMAIN Handlers

\* No request has been served; init_app has been called on the instances the
\* start-up so far has handed to it.
ServerIdle ==
  /\ initialised = IF CACHE_TYPE = "unset" THEN {} ELSE {CachingGlobalCache}
  /\ served = [h \in HandlerNames |-> "not called"]

\* The variables of the other parts of the model at rest.
AuxIdle == KeyIdle /\ FilterIdle /\ TtlIdle /\ KsIdle /\ NameIdle /\ ServerIdle

\* The server is up: init_server has run init_cache (main.py:82) in an
\* environment with both redis variables or with neither.
Init ==
  /\ os_environ \in {{}, EnvVars}
  /\ CACHE_TYPE = cache_type(os_environ)
  /\ InitRest
  /\ AuxIdle

\* The process has started in any environment and init_cache has yet to run.
ConfigInit ==
  /\ os_environ \in SUBSET EnvVars
  /\ CACHE_TYPE = "unset"
  /\ InitRest
  /\ AuxIdle

\* main.py:40-60: init_cache(server) picks the store and hands the
\* configuration to caching.global_cache.init_app.
init_cache ==
  /\ CACHE_TYPE = "unset"
  /\ CACHE_TYPE' = cache_type(os_environ)
  /\ initialised' = initialised \cup {CachingGlobalCache}
  /\ UNCHANGED <<keyvars, filtervars, ttlvars, ksvars, namevars, served>>
  /\ UNCHANGED <<os_environ, IN_MEMORY_LOCKS, mutex_owner, redis_lock, cache>>
  /\ UNCHANGED <<locals, history>>

\* ---------------------------------------------------------------- acquire_lock
\* A caller starts a call: `with acquire_lock(name, blocking_timeout)` directly,
\* or decorated_function (caching.py:109-119, 135-143), which derives the cache
\* key and enters acquire_lock(cache_key) with the default blocking_timeout.
\* caching.py:62-67: the lock name is built and the variant is selected.
Start(t, kinds, timeouts) ==
  /\ pc[t] = "idle"
  /\ CACHE_TYPE # "unset"
  /\ \E o \in kinds, k \in Keys, b \in timeouts :
       /\ o \in Decorated => b = -1
       /\ op' = Set(op, t, o)
       /\ key' = Set(key, t, k)
       /\ bt' = Set(bt, t, b)
       /\ hit_at_start' = Set(hit_at_start, t, o \in Decorated /\ CacheHit(cache[k]))
       /\ prior' = Set(prior, t, IF o = "memoize" THEN returned[k] ELSE NoValue)
  /\ pc' = Set(pc, t, IF has_redis_cache_env_vars THEN "acquire" ELSE "lookup")
  /\ UNCHANGED <<aux, shared, lock, acquired, waited, rv, exc, ran_f, dropped, returned, f_runs>>

\* A caller starts any of the three kinds of call.
Call(t) == Start(t, Ops, BlockingTimeouts)

\* A caller starts a direct `with acquire_lock(name, blocking_timeout)`.
LockCall(t) == Start(t, {"lock"}, BlockingTimeouts)

\* A caller starts a direct `with acquire_lock(name)`, blocking_timeout left
\* at its default.
DefaultLockCall(t) == Start(t, {"lock"}, {-1})

\* A caller starts a direct `with acquire_lock(name)` or
\* `with acquire_lock(name, blocking_timeout=0)`.
TryLockCall(t) == Start(t, {"lock"}, {-1, 0})

\* caching.py:78-79: `if full_lock_name in IN_MEMORY_LOCKS: lock = IN_MEMORY_LOCKS[...]`
\* Entries are never removed, so a name seen present is still present at the read.
Lookup(t) ==
  /\ pc[t] = "lookup"
  /\ IF IN_MEMORY_LOCKS[key[t]] # NoMutex
       THEN /\ lock' = Set(lock, t, IN_MEMORY_LOCKS[key[t]])
            /\ pc' = Set(pc, t, "acquire")
       ELSE /\ pc' = Set(pc, t, "create")
            /\ UNCHANGED lock
  /\ UNCHANGED <<aux, shared, op, key, bt, acquired, waited, rv, exc, history>>

\* caching.py:81-82: a new threading.Lock is made and stored under the name,
\* whatever the registry holds for the name by now.
Create(t) ==
  /\ pc[t] = "create"
  /\ lock' = Set(lock, t, <<key[t], t>>)
  /\ IN_MEMORY_LOCKS' = [IN_MEMORY_LOCKS EXCEPT ![key[t]] = <<key[t], t>>]
  /\ pc' = Set(pc, t, "acquire")
  /\ UNCHANGED <<aux, os_environ, CACHE_TYPE, mutex_owner, redis_lock, cache>>
  /\ UNCHANGED <<op, key, bt, acquired, waited, rv, exc, history>>

\* Variant of LocalAcquire whose finally clause releases without looking at
\* `acquired`: a caller that did not get the mutex releases it all the same.
LocalAcquire_release_unconditional(t) ==
  /\ pc[t] = "acquire"
  /\ ~has_redis_cache_env_vars
  /\ LET r == threading_acquire(blocking(bt[t]), bt[t], mutex_owner[lock[t]] = NoThread)
     IN  /\ r # "block"
         /\ IF r = "True"
              THEN /\ mutex_owner' = [mutex_owner EXCEPT ![lock[t]] = t]
                   /\ acquired' = Set(acquired, t, TRUE)
                   /\ pc' = Set(pc, t, "body")
                   /\ UNCHANGED exc
              ELSE /\ exc' = Set(exc, t, IF r = "False" THEN "LockError" ELSE "ValueError")
                   /\ pc' = Set(pc, t, "done")
                   /\ mutex_owner' = [mutex_owner EXCEPT ![lock[t]] = NoThread]
                   /\ UNCHANGED acquired
  /\ UNCHANGED <<aux, os_environ, CACHE_TYPE, IN_MEMORY_LOCKS, redis_lock, cache>>
  /\ UNCHANGED <<op, key, bt, lock, waited, rv, history>>

\* caching.py:84-95 up to the yield: lock.acquire(blocking=blocking,
\* timeout=blocking_timeout); True enters the body, False raises LockError,
\* ValueError leaves through the finally with acquired still False.
LocalAcquire(t) ==
  /\ pc[t] = "acquire"
  /\ ~has_redis_cache_env_vars
  /\ LET r == threading_acquire(blocking(bt[t]), bt[t], mutex_owner[lock[t]] = NoThread)
     IN  /\ r # "block"
         /\ IF r = "True"
              THEN /\ mutex_owner' = [mutex_owner EXCEPT ![lock[t]] = t]
                   /\ acquired' = Set(acquired, t, TRUE)
                   /\ pc' = Set(pc, t, "body")
                   /\ UNCHANGED exc
              ELSE /\ exc' = Set(exc, t, IF r = "False" THEN "LockError" ELSE "ValueError")
                   /\ pc' = Set(pc, t, "done")
                   /\ UNCHANGED <<mutex_owner, acquired>>
  /\ UNCHANGED <<aux, os_environ, CACHE_TYPE, IN_MEMORY_LOCKS, redis_lock, cache>>
  /\ UNCHANGED <<op, key, bt, lock, waited, rv, history>>

\* caching.py:68-75 up to the yield: the redis lock's __enter__.  A failed
\* acquisition raises redis LockError, re-raised as caching.LockError (74-75).
RedisAcquire(t) ==
  /\ pc[t] = "acquire"
  /\ has_redis_cache_env_vars
  /\ LET r == redis_acquire(redis_blocking_timeout(bt[t]),
                            redis_lock[key[t]] = NoThread, waited[t])
     IN  /\ r # "block"
         /\ CASE r = "True" ->
                   /\ redis_lock' = [redis_lock EXCEPT ![key[t]] = t]
                   /\ acquired' = Set(acquired, t, TRUE)
                   /\ pc' = Set(pc, t, "body")
                   /\ waited' = Set(waited, t, 0)
                   /\ UNCHANGED exc
              [] r = "sleep" ->
                   /\ waited' = Set(waited, t, waited[t] + 1)
                   /\ UNCHANGED <<redis_lock, acquired, pc, exc>>
              [] OTHER ->
                   /\ exc' = Set(exc, t, reraised("redis.LockError"))
                   /\ pc' = Set(pc, t, "done")
                   /\ waited' = Set(waited, t, 0)
                   /\ UNCHANGED <<redis_lock, acquired>>
  /\ UNCHANGED <<aux, os_environ, CACHE_TYPE, IN_MEMORY_LOCKS, mutex_owner, cache>>
  /\ UNCHANGED <<op, key, bt, lock, rv, history>>

\* caching.py:70-75 up to the yield, with the redis server out of reach: the
\* SET NX of the lock's __enter__ raises redis ConnectionError, which is not a
\* redis LockError.
RedisUnreachable(t) ==
  /\ pc[t] = "acquire"
  /\ has_redis_cache_env_vars
  /\ exc' = Set(exc, t, reraised("redis.ConnectionError"))
  /\ pc' = Set(pc, t, "done")
  /\ waited' = Set(waited, t, 0)
  /\ UNCHANGED <<aux, shared, op, key, bt, lock, acquired, rv, history>>

\* ---------------------------------------------------------------- with-bodies
\* The body of a direct `with acquire_lock(...)`: it returns or it raises.
LockBody(t) ==
  /\ pc[t] = "body"
  /\ op[t] = "lock"
  /\ \/ exc' = Set(exc, t, "none")
     \/ exc' = Set(exc, t, "FError")
  /\ pc' = Set(pc, t, "release")
  /\ UNCHANGED <<aux, shared, op, key, bt, lock, acquired, waited, rv, history>>

\* caching.py:119-120: `with acquire_lock(cache_key): return f(*args, **kwargs)`.
\* The body calls f itself, not cached_function: the cache is neither read
\* nor written.
CachedBody(t) ==
  /\ pc[t] = "body"
  /\ op[t] = "cached"
  /\ \/ \E r \in FResults("cached") : rv' = Set(rv, t, r) /\ UNCHANGED exc
     \/ exc' = Set(exc, t, "FError") /\ UNCHANGED rv
  /\ ran_f' = Set(ran_f, t, TRUE)
  /\ pc' = Set(pc, t, "release")
  /\ UNCHANGED <<aux, shared, op, key, bt, lock, acquired, waited>>
  /\ UNCHANGED <<hit_at_start, prior, dropped, returned, f_runs>>

\* Variant of MemoizeGet that does not read the cache inside the lock: the
\* body goes straight on to execute f.
MemoizeGet_no_lookup(t) ==
  /\ pc[t] = "body"
  /\ op[t] = "memoize"
  /\ pc' = Set(pc, t, "compute")
  /\ UNCHANGED <<aux, shared, op, key, bt, lock, acquired, waited, rv, exc, history>>

\* caching.py:143-144: `with acquire_lock(cache_key): return memoized_function(...)`.
\* flask-caching's memoize wrapper first reads the cache: a hit is returned,
\* a miss (or a stored None) goes on to execute f.
MemoizeGet(t) ==
  /\ pc[t] = "body"
  /\ op[t] = "memoize"
  /\ IF CacheHit(cache[key[t]])
       THEN /\ rv' = Set(rv, t, cache[key[t]])
            /\ pc' = Set(pc, t, "release")
       ELSE /\ pc' = Set(pc, t, "compute")
            /\ UNCHANGED rv
  /\ UNCHANGED <<aux, shared, op, key, bt, lock, acquired, waited, exc, history>>

\* The memoize wrapper executes f: it returns a value or it raises.
MemoizeCompute(t) ==
  /\ pc[t] = "compute"
  /\ ran_f' = Set(ran_f, t, TRUE)
  /\ \/ \E r \in FResults("memoize") :
          /\ rv' = Set(rv, t, r)
          /\ f_runs' = [f_runs EXCEPT ![key[t]] =
                          IF r = None THEN @ ELSE Min(@ + 1, MaxRuns)]
          /\ pc' = Set(pc, t, "set")
          /\ UNCHANGED exc
     \/ /\ exc' = Set(exc, t, "FError")
        /\ pc' = Set(pc, t, "release")
        /\ UNCHANGED <<rv, f_runs>>
  /\ UNCHANGED <<aux, shared, op, key, bt, lock, acquired, waited>>
  /\ UNCHANGED <<hit_at_start, prior, dropped, returned>>

\* The memoize wrapper stores the result (no response_filter) with the timeout.
MemoizeSet(t) ==
  /\ pc[t] = "set"
  /\ cache' = [cache EXCEPT ![key[t]] = rv[t]]
  /\ pc' = Set(pc, t, "release")
  /\ UNCHANGED <<aux, os_environ, CACHE_TYPE, IN_MEMORY_LOCKS, mutex_owner, redis_lock>>
  /\ UNCHANGED <<op, key, bt, lock, acquired, waited, rv, exc, history>>

\* ---------------------------------------------------------------- release
\* Variant of LocalRelease without try/finally: the release after the yield is
\* skipped when the body raises.
LocalRelease_no_finally(t) ==
  /\ pc[t] = "release"
  /\ ~has_redis_cache_env_vars
  /\ mutex_owner' = IF acquired[t] /\ exc[t] = "none"
                      THEN [mutex_owner EXCEPT ![lock[t]] = NoThread]
                      ELSE mutex_owner
  /\ pc' = Set(pc, t, "done")
  /\ UNCHANGED <<aux, os_environ, CACHE_TYPE, IN_MEMORY_LOCKS, redis_lock, cache>>
  /\ UNCHANGED <<op, key, bt, lock, acquired, waited, rv, exc, history>>

\* caching.py:92-95: the finally clause releases the mutex this call acquired.
LocalRelease(t) ==
  /\ pc[t] = "release"
  /\ ~has_redis_cache_env_vars
  /\ mutex_owner' = IF acquired[t] THEN [mutex_owner EXCEPT ![lock[t]] = NoThread]
                    ELSE mutex_owner
  /\ pc' = Set(pc, t, "done")
  /\ UNCHANGED <<aux, os_environ, CACHE_TYPE, IN_MEMORY_LOCKS, redis_lock, cache>>
  /\ UNCHANGED <<op, key, bt, lock, acquired, waited, rv, exc, history>>

\* caching.py:71-76: the redis lock's __exit__ releases on return and on raise.
\* It deletes the lock key only while the key still carries this caller's
\* token; otherwise it raises LockNotOwnedError, a redis LockError, which line
\* 74-75 turns into caching.LockError in place of the body's outcome.
RedisRelease(t) ==
  /\ pc[t] = "release"
  /\ has_redis_cache_env_vars
  /\ IF redis_lock[key[t]] = t
       THEN /\ redis_lock' = [redis_lock EXCEPT ![key[t]] = NoThread]
            /\ UNCHANGED <<rv, exc>>
       ELSE /\ exc' = Set(exc, t, reraised("redis.LockError"))
            /\ rv' = Set(rv, t, NoValue)
            /\ UNCHANGED redis_lock
  /\ pc' = Set(pc, t, "done")
  /\ UNCHANGED <<aux, os_environ, CACHE_TYPE, IN_MEMORY_LOCKS, mutex_owner, cache>>
  /\ UNCHANGED <<op, key, bt, lock, acquired, waited, history>>

\* Control is back with the caller, which goes on to its next call.
Return(t) ==
  /\ pc[t] = "done"
  /\ returned' = IF op[t] = "memoize" /\ exc[t] = "none" /\ ~dropped[t]
                   THEN [returned EXCEPT ![key[t]] = rv[t]]
                   ELSE returned
  /\ pc' = Set(pc, t, "idle")
  /\ op' = Set(op, t, "lock")
  /\ key' = Set(key, t, 0)
  /\ bt' = Set(bt, t, -1)
  /\ lock' = Set(lock, t, NoMutex)
  /\ acquired' = Set(acquired, t, FALSE)
  /\ waited' = Set(waited, t, 0)
  /\ rv' = Set(rv, t, NoValue)
  /\ exc' = Set(exc, t, "none")
  /\ ran_f' = Set(ran_f, t, FALSE)
  /\ hit_at_start' = Set(hit_at_start, t, FALSE)
  /\ prior' = Set(prior, t, NoValue)
  /\ dropped' = Set(dropped, t, FALSE)
  /\ UNCHANGED <<aux, shared, f_runs>>

\* The holder of a redis lock dies inside the with-block (its process is
\* killed): the __exit__ of caching.py:71 never runs for it.
Crash(t) ==
  /\ has_redis_cache_env_vars
  /\ pc[t] \in {"body", "release"}
  /\ pc' = Set(pc, t, "crashed")
  /\ UNCHANGED <<aux, shared, op, key, bt, lock, acquired, waited, rv, exc, history>>

\* ---------------------------------------------------------------- environment
\* Variant of LeaseExpire for a lock taken without a timeout: the store never
\* drops the lock key.
LeaseExpire_no_lease(k) ==
  /\ FALSE
  /\ UNCHANGED vars

\* The redis lock is taken with timeout=SIX_HOURS_IN_SECONDS (caching.py:71):
\* the store drops the lock key when the lease runs out.
LeaseExpire(k) ==
  /\ has_redis_cache_env_vars
  /\ redis_lock[k] # NoThread
  /\ redis_lock' = [redis_lock EXCEPT ![k] = NoThread]
  /\ UNCHANGED <<aux, os_environ, CACHE_TYPE, IN_MEMORY_LOCKS, mutex_owner, cache, locals, history>>

\* The store drops a cache entry whose timeout has elapsed.
CacheExpire(k) ==
  /\ cache[k] # Miss
  /\ cache' = [cache EXCEPT ![k] = Miss]
  /\ Forget({k})
  /\ UNCHANGED <<aux, os_environ, CACHE_TYPE, IN_MEMORY_LOCKS, mutex_owner, redis_lock>>
  /\ UNCHANGED <<locals, ran_f, hit_at_start, prior>>

\* caching.py:167-170: global_cache.clear().  SimpleCache empties its own
\* dictionary.  RedisCache deletes every key under CACHE_KEY_PREFIX (or flushes
\* the database when the prefix is empty); the lock keys made at line 64 carry
\* the same prefix and live in the same database (line 71), so they go too.
cache_clear ==
  /\ (\E k \in Keys : cache[k] # Miss \/ redis_lock[k] # NoThread)
  /\ cache' = [k \in Keys |-> Miss]
  /\ redis_lock' = IF CACHE_TYPE = "RedisCache" THEN [k \in Keys |-> NoThread]
                   ELSE redis_lock
  /\ Forget(Keys)
  /\ UNCHANGED <<aux, os_environ, CACHE_TYPE, IN_MEMORY_LOCKS, mutex_owner>>
  /\ UNCHANGED <<locals, ran_f, hit_at_start, prior>>

\* ---------------------------------------------------------------- query cache keys
\* google_dashboard/queries.py: the functions decorated with memoization's
\* @cached.  params: the parameters after `session`; required: how many of
\* them have no default; custom: the decorator names a custom_key_maker;
\* keyed: the parameters the key maker puts in the list it hands to make_key.
Signatures ==
  [ top_political_advertisers_since_date |->
      [ params |-> <<"start_date", "end_date", "region", "page", "page_size">>,
        required |-> 0, custom |-> TRUE,
        keyed |-> <<"start_date", "end_date", "region", "page">> ],
    top_ad_uploaders_since_date |->
      [ params |-> <<"start_date", "end_date", "page", "page_size">>,
        required |-> 0, custom |-> TRUE,
        keyed |-> <<"start_date", "end_date", "page">> ],
    spend_of_advertiser_by_week |->
      [ params |-> <<"advertiser_name", "start_date", "end_date">>,
        required |-> 1, custom |-> TRUE,
        keyed |-> <<"advertiser_name", "start_date", "end_date">> ],
    spend_of_advertiser_id_by_week |->
      [ params |-> <<"advertiser_id", "start_date", "end_date">>,
        required |-> 1, custom |-> TRUE,
        keyed |-> <<"advertiser_id", "start_date", "end_date">> ],
    spend_of_advertiser_by_region |->
      [ params |-> <<"advertiser_name", "start_date", "end_date">>,
        required |-> 1, custom |-> TRUE,
        keyed |-> <<"advertiser_name", "start_date", "end_date">> ],
    spend_of_advertiser_id_by_region |->
      [ params |-> <<"advertiser_id", "start_date", "end_date">>,
        required |-> 1, custom |-> TRUE,
        keyed |-> <<"advertiser_id", "start_date", "end_date">> ],
    search_political_ads |->
      [ params |-> <<"querystring", "advertiser_id", "advertiser_name",
                     "start_date", "end_date", "page", "page_size">>,
        required |-> 0, custom |-> TRUE,
        keyed |-> <<"querystring", "advertiser_id", "advertiser_name",
                    "start_date", "end_date", "page", "page_size">> ],
    search_observed_video_ads |->
      [ params |-> <<"querystring", "uploader_id", "start_date", "end_date",
                     "targeting", "observed_only", "political_only",
                     "missing_ads_only", "page", "page_size">>,
        required |-> 0, custom |-> TRUE,
        keyed |-> <<"querystring", "uploader_id", "start_date", "end_date",
                    "targeting", "observed_only", "political_only",
                    "missing_ads_only", "page", "page_size">> ],
    autocomplete_advertiser_name |->
      [ params |-> <<"advertiser_name_substr">>,
        required |-> 1, custom |-> TRUE,
        keyed |-> <<"advertiser_name_substr">> ],
    get_uploader_ids_for_advertiser |->
      [ params |-> <<"advertiser_name">>,
        required |-> 1, custom |-> TRUE,
        keyed |-> <<"advertiser_name">> ],
    all_kinds_of_missed_ads |->
      [ params |-> <<"kind", "page", "page_size", "advertiser_substring">>,
        required |-> 0, custom |-> TRUE,
        keyed |-> <<"kind", "page", "page_size", "advertiser_substring">> ],
    disappearing_ads_query |->
      [ params |-> <<"advertiser_substring">>,
        required |-> 0, custom |-> FALSE,
        keyed |-> <<>> ],
    disappearing_ads |->
      [ params |-> <<"advertiser_name", "page", "page_size">>,
        required |-> 0, custom |-> TRUE,
        keyed |-> <<"advertiser_name", "page", "page_size">> ],
    disappearing_ads_counts |->
      [ params |-> <<"page", "page_size">>,
        required |-> 0, custom |-> TRUE,
        keyed |-> <<"page", "page_size">> ],
    disappearing_youtube_ads |->
      [ params |-> <<>>,
        required |-> 0, custom |-> FALSE,
        keyed |-> <<>> ],
    political_seeming_missed_ads |->
      [ params |-> <<"page", "page_size", "threshold">>,
        required |-> 0, custom |-> TRUE,
        keyed |-> <<"page", "page_size", "threshold">> ],
    jobby_seeming_ads |->
      [ params |-> <<"page", "page_size", "threshold">>,
        required |-> 0, custom |-> TRUE,
        keyed |-> <<"page", "page_size", "threshold">> ],
    violating_ads |->
      [ params |-> <<"page", "page_size">>,
        required |-> 0, custom |-> TRUE,
        keyed |-> <<"page", "page_size">> ] ]

QueryFunctions == DOMAIN Signatures

\* Argument values: "default" is the value the parameter's default has (for a
\* required parameter, one particular value), "x" is another value.
ArgValues == {"default", "x"}

Params(fn) == Signatures[fn].params

ParamNames(fn) == {Params(fn)[i] : i \in 1..Len(Params(fn))}

\* The parameters a call gives a value to, positionally or by keyword.
Given(fn, a, kw) ==
  {Params(fn)[i] : i \in 1..Len(a)} \cup {kw[j][1] : j \in 1..Len(kw)}

\* Python's binding of a call's arguments to the parameters of the function,
\* and of the key maker, which has the same signature: positional arguments
\* in order, keyword arguments by name, the default for the rest.
Bind(fn, a, kw) ==
  [p \in ParamNames(fn) |->
     IF \E i \in 1..Len(a) : Params(fn)[i] = p
       THEN a[CHOOSE i \in 1..Len(a) : Params(fn)[i] = p]
     ELSE IF \E j \in 1..Len(kw) : kw[j][1] = p
       THEN kw[CHOOSE j \in 1..Len(kw) : kw[j][1] = p][2]
     ELSE "default"]

\* keys_order_independent.make_key(list, []) as the key makers call it: with
\* no keyword part the key is the list itself, and a list, which cannot be
\* hashed, is turned into its string: one entry per element, in order.
make_key(list) == <<"str", list>>

\* queries.py:672-673: the key maker of search_observed_video_ads puts {} in
\* the list when targeting is None, its default.
KeyEntry(p, v) == IF p = "targeting" /\ v = "default" THEN "{}" ELSE v

\* A custom key maker (queries.py:31-42, 196-200, ..., 1173-1175): the list of
\* the values bound to the parameters it names, handed to make_key.
custom_key_maker(fn, bound) ==
  make_key([i \in 1..Len(Signatures[fn].keyed) |->
              KeyEntry(Signatures[fn].keyed[i], bound[Signatures[fn].keyed[i]])])

\* The keyword arguments as the flat sequence name, value, name, value, ...
Flat(kw) ==
  [i \in 1..(2 * Len(kw)) |-> kw[(i + 1) \div 2][IF i % 2 = 1 THEN 1 ELSE 2]]

\* memoization's key for @cached without custom_key_maker (queries.py:932,
\* 1005): the positional arguments as passed, the session first, then, if
\* there are keyword arguments, a mark and the keywords in the order written.
default_make_key(a, kw) ==
  <<"HashedList",
    <<"session">> \o a \o (IF kw = <<>> THEN <<>> ELSE <<"kwargs_mark">> \o Flat(kw))>>

\* The cache key @cached makes for the call fn(session, *a, **kw).
query_cache_key(fn, a, kw) ==
  IF Signatures[fn].custom THEN custom_key_maker(fn, Bind(fn, a, kw))
  ELSE default_make_key(a, kw)

\* The keyword arguments of a call with the same explicit arguments, all
\* written by keyword in the order of the parameter list.
AsKeywords(fn, a, kw) ==
  LET given == Given(fn, a, kw)
      idx == {i \in 1..Len(Params(fn)) : Params(fn)[i] \in given}
      nth(n) == CHOOSE i \in idx : Cardinality({j \in idx : j < i}) = n - 1
  IN  [n \in 1..Cardinality(idx) |->
         <<Params(fn)[nth(n)], Bind(fn, a, kw)[Params(fn)[nth(n)]]>>]

\* The call as now written gets its key.
Keyed(a, kw) ==
  /\ args' = a
  /\ kwargs' = kw
  /\ query_key' = query_cache_key(query_fn, a, kw)
  /\ UNCHANGED <<query_fn, core, filtervars, ttlvars, ksvars, namevars, servervars>>

\* A call starts as fn(session, required arguments...).
KeyInit ==
  /\ os_environ = {}
  /\ CACHE_TYPE = cache_type(os_environ)
  /\ InitRest
  /\ query_fn \in QueryFunctions
  /\ args \in [1..Signatures[query_fn].required -> ArgValues]
  /\ kwargs = <<>>
  /\ query_key = query_cache_key(query_fn, args, kwargs)
  /\ FilterIdle
  /\ TtlIdle
  /\ KsIdle
  /\ NameIdle
  /\ ServerIdle

\* One more argument is written, by keyword.
AddKeyword(p, v) ==
  /\ p \in ParamNames(query_fn) \ Given(query_fn, args, kwargs)
  /\ Len(args) + Len(kwargs) < Signatures[query_fn].required + MaxArgs
  /\ Keyed(args, Append(kwargs, <<p, v>>))

\* Two neighbouring keyword arguments are written in the other order.
SwapKeywords(j) ==
  /\ j \in 1..(Len(kwargs) - 1)
  /\ Keyed(args, [kwargs EXCEPT ![j] = kwargs[j + 1], ![j + 1] = kwargs[j]])

\* The keyword argument of the next positional parameter is written
\* positionally instead.
ToPositional(j) ==
  /\ j \in 1..Len(kwargs)
  /\ kwargs[j][1] = Params(query_fn)[Len(args) + 1]
  /\ Keyed(Append(args, kwargs[j][2]),
           SubSeq(kwargs, 1, j - 1) \o SubSeq(kwargs, j + 1, Len(kwargs)))

\* The last positional argument is written by keyword instead.
ToKeyword ==
  /\ Len(args) > 0
  /\ Keyed(SubSeq(args, 1, Len(args) - 1),
           Append(kwargs, <<Params(query_fn)[Len(args)], args[Len(args)]>>))

\* One argument is given another value.
ChangePositional(i, v) ==
  /\ i \in 1..Len(args)
  /\ v # args[i]
  /\ Keyed([args EXCEPT ![i] = v], kwargs)

ChangeKeyword(j, v) ==
  /\ j \in 1..Len(kwargs)
  /\ v # kwargs[j][2]
  /\ Keyed(args, [kwargs EXCEPT ![j] = <<kwargs[j][1], v>>])

\* Calls of one query function, written in every way.
KeyNext ==
  \/ \E p \in ParamNames(query_fn), v \in ArgValues : AddKeyword(p, v)
  \/ \E j \in 1..MaxArgs : SwapKeywords(j)
  \/ \E j \in 1..(MaxArgs + 1) : ToPositional(j)
  \/ ToKeyword
  \/ \E i \in 1..(MaxArgs + 1), v \in ArgValues :
       ChangePositional(i, v) \/ ChangeKeyword(i, v)

KeySpec == KeyInit /\ [][KeyNext]_vars

\* ---------------------------------------------------------------- response filter
\* A view decorated with global_cache.cached(query_string=True,
\* response_filter=cache_if_response_no_server_error, timeout=...)
\* (google_dashboard/blueprint.py:64-68, ads_search.py:141-143): a cached
\* response is returned as it is; otherwise the handler runs and its response
\* is stored if the filter returns True.  A filter that raises ends the call
\* with nothing stored.
ViewCall(v) ==
  /\ IF view_cache[v] # Miss
       THEN /\ view_resp' = view_cache[v]
            /\ filter_result' = "hit"
            /\ UNCHANGED view_cache
       ELSE \E r \in HandlerResults :
              /\ view_resp' = r
              /\ filter_result' = cache_if_response_no_server_error(r)
              /\ view_cache' = IF cache_if_response_no_server_error(r) = "True"
                                 THEN [view_cache EXCEPT ![v] = r]
                                 ELSE view_cache
  /\ UNCHANGED <<core, keyvars, ttlvars, ksvars, namevars, servervars>>

\* The timeout of a cached response runs out.
ViewExpire(v) ==
  /\ view_cache[v] # Miss
  /\ view_cache' = [view_cache EXCEPT ![v] = Miss]
  /\ UNCHANGED <<view_resp, filter_result, core, keyvars, ttlvars, ksvars, namevars, servervars>>

FilterInit ==
  /\ os_environ = {}
  /\ CACHE_TYPE = cache_type(os_environ)
  /\ InitRest
  /\ AuxIdle

FilterNext == \E v \in Views : ViewCall(v) \/ ViewExpire(v)

FilterSpec == FilterInit /\ [][FilterNext]_vars

\* ---------------------------------------------------------------- timeouts
\* The timeouts the decorators pass (ONE_HOUR, SIX_HOURS, ONE_DAY), in ticks.
Ttls == 1..MaxTtl

\* Variant of store_get that hands out an entry whatever its age.
store_get_any_age(e, now) == IF e = Miss THEN Miss ELSE e[2]

\* CacheStore.set(key, value, ttl): the entry with the time it lapses.
\* An entry is <<"entry", value, time of the set, ttl, time it lapses>>.
store_set(v, ttl, now) == <<"entry", v, now, ttl, now + ttl>>

\* CacheStore.get(key): the value of an entry that has not lapsed, else a miss
\* (expiry is lazy: a lapsed entry may still sit in the store).
store_get(e, now) ==
  IF e # Miss /\ now < e[5] THEN e[2] ELSE Miss

\* Variant of MemoizedCall that stores the value of f only under a key the
\* store has no entry for (add instead of set): a lapsed entry stays.
MemoizedCall_add_if_absent(ttl) ==
  /\ LET v == store_get(entry, clock)
     IN  IF v # Miss
           THEN /\ got' = <<"hit", v, clock - entry[3], entry[4]>>
                /\ UNCHANGED <<entry, replaced>>
           ELSE \E r \in MemoValues :
                  /\ got' = <<"computed", r, 0, ttl>>
                  /\ replaced' = entry
                  /\ entry' = IF entry = Miss THEN store_set(r, ttl, clock) ELSE entry
  /\ UNCHANGED <<clock, core, keyvars, filtervars, ksvars, namevars, servervars>>

\* caching.py:141-144: memoized_function(*args, **kwargs) with
\* memoized_function = global_cache.memoize(timeout=timeout)(f): a value the
\* store still has is returned, otherwise f runs and its value is stored with
\* the timeout.
MemoizedCall(ttl) ==
  /\ LET v == store_get(entry, clock)
     IN  IF v # Miss
           THEN /\ got' = <<"hit", v, clock - entry[3], entry[4]>>
                /\ UNCHANGED <<entry, replaced>>
           ELSE \E r \in MemoValues :
                  /\ entry' = store_set(r, ttl, clock)
                  /\ got' = <<"computed", r, 0, ttl>>
                  /\ replaced' = entry
  /\ UNCHANGED <<clock, core, keyvars, filtervars, ksvars, namevars, servervars>>

\* Time passes.
Tick ==
  /\ clock < MaxTime
  /\ clock' = clock + 1
  /\ UNCHANGED <<entry, got, replaced, core, keyvars, filtervars, ksvars, namevars, servervars>>

TtlInit ==
  /\ os_environ = {}
  /\ CACHE_TYPE = cache_type(os_environ)
  /\ InitRest
  /\ AuxIdle

TtlNext == Tick \/ \E ttl \in Ttls : MemoizedCall(ttl)

TtlSpec == TtlInit /\ [][TtlNext]_vars

\* ---------------------------------------------------------------- keyspace
\* The names are rebuilt for the name and the value key as they now read.
Named(n, k) ==
  /\ name' = n
  /\ value_key' = k
  /\ full_lock_name' = acquire_lock_full_lock_name(deployment_prefix, n)
  /\ store_key' = redis_store_key(deployment_prefix, k)
  /\ UNCHANGED <<deployment_prefix, core, keyvars, filtervars, ttlvars, namevars, servervars>>

\* The name handed to acquire_lock is one character longer.
LongerName(c) ==
  /\ Len(name) < MaxNameLen
  /\ Named(Append(name, c), value_key)

\* The cache key of a stored value is one character longer: a memoize key, or
\* a view's key beginning with '/'.
LongerKey(c) ==
  /\ Len(value_key) < MaxKeyLen
  /\ c = "/" => value_key = <<>>
  /\ c = ":" => (value_key # <<>> /\ value_key[1] = "/")
  /\ Named(name, Append(value_key, c))

\* On App Engine or off it, no name made yet.
KeyspaceInit ==
  /\ os_environ = EnvVars
  /\ CACHE_TYPE = cache_type(os_environ)
  /\ InitRest
  /\ KeyIdle /\ FilterIdle /\ TtlIdle /\ NameIdle /\ ServerIdle
  /\ deployment_prefix \in {None, <<"k", "-">>}
  /\ name = <<>>
  /\ value_key = <<>>
  /\ full_lock_name = acquire_lock_full_lock_name(deployment_prefix, name)
  /\ store_key = redis_store_key(deployment_prefix, value_key)

KeyspaceNext ==
  \/ \E c \in NameChars : LongerName(c)
  \/ \E c \in PathChars \cup {"/"} : LongerKey(c)

KeyspaceSpec == KeyspaceInit /\ [][KeyspaceNext]_vars

\* ---------------------------------------------------------------- locks by name
\* The names callers hand to acquire_lock: cache keys, as characters.
LockNameChars == {"l", "o"}
LockNames == UNION {[1..l -> LockNameChars] : l \in 0..MaxNameLen}

\* caching.py:64: the full lock name of the caller's acquire_lock.
FullLockName(c) == acquire_lock_full_lock_name(deployment_prefix, caller_name[c])

\* caching.py:62-66: a caller enters acquire_lock(name), blocking.
AcquireLockEnter(c, n) ==
  /\ caller_pc[c] = "idle"
  /\ caller_name' = Set(caller_name, c, n)
  /\ caller_pc' = Set(caller_pc, c, "acquire")
  /\ UNCHANGED <<locked, servervars, core, keyvars, filtervars, ttlvars, ksvars>>

\* caching.py:71, 78-86: the lock kept under the full lock name (the redis key
\* of that name, the IN_MEMORY_LOCKS entry of that name) is free and is taken.
AcquireLockTake(c) ==
  /\ caller_pc[c] = "acquire"
  /\ FullLockName(c) \notin locked
  /\ locked' = locked \cup {FullLockName(c)}
  /\ caller_pc' = Set(caller_pc, c, "body")
  /\ UNCHANGED <<caller_name, servervars, core, keyvars, filtervars, ttlvars, ksvars>>

\* Variant of AcquireLockLeave that ends the with-body without releasing.
AcquireLockLeave_keeps_lock(c) ==
  /\ caller_pc[c] = "body"
  /\ caller_pc' = Set(caller_pc, c, "idle")
  /\ caller_name' = Set(caller_name, c, NoValue)
  /\ UNCHANGED <<locked, servervars, core, keyvars, filtervars, ttlvars, ksvars>>

\* caching.py:71-76, 92-95, 119-120, 143-144: the with-body (the execution of
\* f) ends, by return or by exception, and the lock is released.
AcquireLockLeave(c) ==
  /\ caller_pc[c] = "body"
  /\ locked' = locked \ {FullLockName(c)}
  /\ caller_pc' = Set(caller_pc, c, "idle")
  /\ caller_name' = Set(caller_name, c, NoValue)
  /\ UNCHANGED <<servervars, core, keyvars, filtervars, ttlvars, ksvars>>

\* One deployment, on App Engine or off it; no caller in acquire_lock.
NamesInit ==
  /\ os_environ \in {{}, EnvVars}
  /\ CACHE_TYPE = cache_type(os_environ)
  /\ InitRest
  /\ KeyIdle /\ FilterIdle /\ TtlIdle /\ NameIdle /\ ServerIdle
  /\ deployment_prefix \in {None, <<"k", "-">>}
  /\ name = <<>>
  /\ value_key = <<>>
  /\ full_lock_name = acquire_lock_full_lock_name(deployment_prefix, name)
  /\ store_key = redis_store_key(deployment_prefix, value_key)

NamesNext ==
  \E c \in Threads :
    \/ \E n \in LockNames : AcquireLockEnter(c, n)
    \/ AcquireLockTake(c)
    \/ AcquireLockLeave(c)

NamesSpec == NamesInit /\ [][NamesNext]_vars

\* Callers with the default blocking_timeout whose with-bodies all end (weak
\* fairness on leaving the body: f terminates and the release of lines 71-76,
\* 92-95 follows on every exit path) and whose lock serves waiting callers
\* fairly (strong fairness on taking a lock that is free again and again).
ProgressSpec ==
  /\ NamesInit
  /\ [][NamesNext]_vars
  /\ \A c \in Threads : WF_vars(AcquireLockLeave(c)) /\ SF_vars(AcquireLockTake(c))

\* ---------------------------------------------------------------- server start-up
\* A request reaches a handler (or a handler calls a memoized helper) once
\* init_server has returned (main.py:113, 140): the decorator works on the
\* handler's Cache instance.
Serve(h) ==
  /\ CACHE_TYPE # "unset"
  /\ served' = [served EXCEPT ![h] =
                  IF Handlers[h] \in initialised THEN "initialised" ELSE "uninitialised"]
  /\ UNCHANGED <<initialised, core, keyvars, filtervars, ttlvars, ksvars, namevars>>

\* The process starts in any environment; init_server runs init_cache and
\* requests are served from then on.
ServerNext ==
  \/ init_cache
  \/ \E h \in HandlerNames : Serve(h)

ServerSpec == ConfigInit /\ [][ServerNext]_vars

\* ---------------------------------------------------------------- specification
Next ==
  \/ \E t \in Threads :
       \/ Call(t)
       \/ Lookup(t)
       \/ Create(t)
       \/ LocalAcquire(t)
       \/ RedisAcquire(t)
       \/ LockBody(t)
       \/ CachedBody(t)
       \/ MemoizeGet(t)
       \/ MemoizeCompute(t)
       \/ MemoizeSet(t)
       \/ LocalRelease(t)
       \/ RedisRelease(t)
       \/ Return(t)
  \/ \E k \in Keys : LeaseExpire(k) \/ CacheExpire(k)
  \/ cache_clear

Spec == Init /\ [][Next]_vars

\* acquire_lock on its own: every caller is a direct `with acquire_lock(...)`
\* whose body returns or raises, beside lease expiry and the cache_clear endpoint.
LockNext ==
  \/ \E t \in Threads :
       \/ LockCall(t)
       \/ Lookup(t)
       \/ Create(t)
       \/ LocalAcquire(t)
       \/ RedisAcquire(t)
       \/ LockBody(t)
       \/ LocalRelease(t)
       \/ RedisRelease(t)
       \/ Return(t)
  \/ \E k \in Keys : LeaseExpire(k)
  \/ cache_clear

LockSpec == Init /\ [][LockNext]_vars

\* acquire_lock in the networked variant, the redis server at times out of
\* reach while a caller attempts acquisition.
BackendInit == Init /\ has_redis_cache_env_vars

BackendNext ==
  \/ \E t \in Threads :
       \/ LockCall(t)
       \/ RedisAcquire(t)
       \/ RedisUnreachable(t)
       \/ LockBody(t)
       \/ RedisRelease(t)
       \/ Return(t)
  \/ \E k \in Keys : LeaseExpire(k)

BackendSpec == BackendInit /\ [][BackendNext]_vars

\* The networked lock with holders that may die: callers wait with the default
\* blocking_timeout.  The store's clock runs, so a lease that can expire does
\* (weak fairness), and the retry loop of a waiting caller, which polls the
\* lock key until it finds it free, does find it free if it is free again
\* and again (strong fairness).
LeaseNext ==
  \/ \E t \in Threads :
       \/ DefaultLockCall(t)
       \/ RedisAcquire(t)
       \/ LockBody(t)
       \/ RedisRelease(t)
       \/ Return(t)
       \/ Crash(t)
  \/ \E k \in Keys : LeaseExpire(k)

LeaseSpec ==
  /\ BackendInit
  /\ [][LeaseNext]_vars
  /\ \A k \in Keys : WF_vars(LeaseExpire(k))
  /\ \A t \in Threads : SF_vars(RedisAcquire(t))

\* Start-up followed by callers of acquire_lock with the default
\* blocking_timeout, in every environment.
ConfigNext ==
  \/ init_cache
  \/ \E t \in Threads :
       \/ DefaultLockCall(t)
       \/ Lookup(t)
       \/ Create(t)
       \/ LocalAcquire(t)
       \/ RedisAcquire(t)
       \/ LockBody(t)
       \/ LocalRelease(t)
       \/ RedisRelease(t)
       \/ Return(t)

ConfigSpec == ConfigInit /\ [][ConfigNext]_vars

\* A caller calls a function wrapped by memoize_response_blocking_... .
MemoizeCall(t) == Start(t, {"memoize"}, {-1})

\* Calls of memoize-wrapped functions in the networked variant, no entry
\* expiring and no lease running out meanwhile.
MemoizeNext ==
  \E t \in Threads :
    \/ MemoizeCall(t)
    \/ RedisAcquire(t)
    \/ MemoizeGet(t)
    \/ MemoizeCompute(t)
    \/ MemoizeSet(t)
    \/ RedisRelease(t)
    \/ Return(t)

MemoizeSpec == BackendInit /\ [][MemoizeNext]_vars

\* acquire_lock called directly with the default blocking_timeout or with
\* blocking_timeout=0, in both variants, the store reachable, lock keys
\* expiring and the cache being cleared while callers run.
ExitNext ==
  \/ \E t \in Threads :
       \/ TryLockCall(t)
       \/ Lookup(t)
       \/ Create(t)
       \/ LocalAcquire(t)
       \/ RedisAcquire(t)
       \/ LockBody(t)
       \/ LocalRelease(t)
       \/ RedisRelease(t)
       \/ Return(t)
  \/ \E k \in Keys : LeaseExpire(k)
  \/ cache_clear

ExitSpec == Init /\ [][ExitNext]_vars

\* acquire_lock in both variants, called blocking or with blocking_timeout=0,
\* with every way its acquisition ends: the lock taken, LockError, ValueError,
\* the store out of reach; leases run out.
ReleaseNext ==
  \/ \E t \in Threads :
       \/ TryLockCall(t)
       \/ Lookup(t)
       \/ Create(t)
       \/ LocalAcquire(t)
       \/ RedisAcquire(t)
       \/ RedisUnreachable(t)
       \/ LockBody(t)
       \/ LocalRelease(t)
       \/ RedisRelease(t)
       \/ Return(t)
  \/ \E k \in Keys : LeaseExpire(k)

ReleaseSpec == Init /\ [][ReleaseNext]_vars

TypeOK ==
  /\ os_environ \in SUBSET EnvVars
  /\ CACHE_TYPE \in {"unset", "SimpleCache", "RedisCache"}
  /\ IN_MEMORY_LOCKS \in [Keys -> Mutexes \cup {NoMutex}]
  /\ mutex_owner \in [Mutexes -> Threads \cup {NoThread}]
  /\ redis_lock \in [Keys -> Threads \cup {NoThread}]
  /\ pc \in [Threads -> {"idle", "lookup", "create", "acquire", "body",
                         "compute", "set", "release", "done", "crashed"}]
  /\ op \in [Threads -> Ops]
  /\ bt \in [Threads -> BlockingTimeouts]
  /\ acquired \in [Threads -> BOOLEAN]
  /\ exc \in [Threads -> {"none", "LockError", "ValueError", "FError",
                          "redis.ConnectionError"}]
  /\ f_runs \in [Keys -> 0..MaxRuns]

\* ---------------------------------------------------------------- properties
\* The caller is between its successful acquire and its release.
InBody(t) == acquired[t] /\ pc[t] \in {"body", "compute", "set", "release"}

\* The lock the caller is about to acquire is held.
Held(t) ==
  IF has_redis_cache_env_vars THEN redis_lock[key[t]] # NoThread
  ELSE mutex_owner[lock[t]] # NoThread

\* The caller holds no mutex and no redis lock key.
HoldsNothing(t) ==
  /\ \A m \in Mutexes : mutex_owner[m] # t
  /\ \A k \in Keys : redis_lock[k] # t

\* C1 (single-flight, local variant): between two moments at which the cache
\* is emptied, f returns a cacheable value at most once per key, and exactly
\* once when a memoize call has returned such a value.
C1_SingleFlight ==
  ~redis_env =>
    \A k \in Keys :
      /\ f_runs[k] <= 1
      /\ returned[k] \in MemoValues => f_runs[k] = 1

\* C2 (local mutual exclusion): in the local variant no two callers are inside
\* the with-body of acquire_lock for the same name at once.
C2_LocalMutualExclusion ==
  ~redis_env =>
    \A t, u \in Threads : (t # u /\ InBody(t) /\ InBody(u)) => key[t] # key[u]

\* C3 (networked mutual exclusion): in the networked variant no two callers
\* are inside the with-body of acquire_lock for the same name at once,
\* whatever leases expire and whenever cache_clear is called.
C3_RedisMutualExclusion ==
  redis_env =>
    \A t, u \in Threads : (t # u /\ InBody(t) /\ InBody(u)) => key[t] # key[u]

\* C4 (hit path takes no lock): a decorated call that began with its key in
\* the cache never acquires the lock.
C4_HitTakesNoLock ==
  \A t \in Threads : hit_at_start[t] => ~acquired[t]

\* C5 (memoized hit): a memoize call made after an earlier call returned v for
\* the key, with no expiry or clear since, returns v without executing f.
\* Stated for the local variant and for v other than None, the case in which
\* the store does keep v and no lease is involved.
C5_MemoizedHit ==
  ~redis_env =>
    \A t \in Threads :
      (op[t] = "memoize" /\ pc[t] = "done" /\ prior[t] \in MemoValues /\ ~dropped[t])
        => (exc[t] = "none" /\ rv[t] = prior[t] /\ ~ran_f[t])

\* C6 (response caching): once the body of a cached call has returned a
\* response the filter accepts, the cache holds it under the call's key, and a
\* cached call that began with its key in the cache does not execute f.
C6_ResponseCached ==
  \A t \in Threads :
    (op[t] = "cached" /\ ~dropped[t]) =>
      /\ (pc[t] = "release" /\ exc[t] = "none"
            /\ cache_if_response_no_server_error(rv[t]) = "True")
           => cache[key[t]] = rv[t]
      /\ hit_at_start[t] => ~ran_f[t]

C8_NonBlocking ==
  [][\A t \in Threads :
       (pc[t] = "acquire" /\ bt[t] = 0 /\ pc'[t] # "acquire") =>
         IF Held(t)
           THEN pc'[t] = "done" /\ exc'[t] = "LockError" /\ ~acquired'[t]
           ELSE pc'[t] = "body" /\ acquired'[t]]_vars

\* C9 (bounded wait): with blocking_timeout=T > 0 the acquire step ends with
\* the body entered when the lock is free, or with LockError when the lock is
\* still held after T, in both variants.
C9_BoundedWait ==
  [][\A t \in Threads :
       (pc[t] = "acquire" /\ bt[t] > 0 /\ pc'[t] # "acquire") =>
         IF Held(t)
           THEN pc'[t] = "done" /\ exc'[t] = "LockError" /\ ~acquired'[t]
                /\ waited[t] >= bt[t]
           ELSE pc'[t] = "body" /\ acquired'[t]]_vars

\* C10 (unbounded wait): a caller with the default blocking_timeout never
\* comes out of the acquire step without the lock: it stays there until it has
\* acquired, and only then runs the body.
C10_UnboundedWait ==
  \A t \in Threads :
    (bt[t] = -1 /\ pc[t] \in {"body", "compute", "set", "release", "done"})
      => acquired[t]

\* A default caller waits at the acquire step while another caller is inside
\* the body for the same name, in the networked variant.
C10_Witness ==
  \E t, u \in Threads :
    /\ redis_env
    /\ bt[t] = -1 /\ pc[t] = "acquire" /\ Held(t)
    /\ InBody(u) /\ key[u] = key[t] /\ redis_lock[key[u]] = u

\* C11 (computation failure): when f raises inside a decorated call, the step
\* that raises leaves the cache as it was, and the release that follows hands
\* the caller that same exception, with the caller holding no lock and the
\* cache still untouched.
C11_FailurePropagates ==
  [][\A t \in Threads :
       /\ (op[t] \in Decorated /\ exc[t] = "none" /\ exc'[t] = "FError")
            => cache' = cache
       /\ (op[t] \in Decorated /\ pc[t] = "release" /\ exc[t] = "FError"
             /\ pc'[t] = "done")
            => (exc'[t] = "FError" /\ HoldsNothing(t)' /\ cache' = cache)]_vars

\* C12 (no conflation of failures): a caller that has LockError never got the
\* lock: its body, and f, have not been executed.
C12_LockErrorMeansNotAcquired ==
  \A t \in Threads : exc[t] = "LockError" => (~acquired[t] /\ ~ran_f[t])

\* C20 (variant selection): once init_cache has run, the store is the redis
\* one exactly when both REDIS_HOST and REDIS_PORT are set and the in-process
\* one otherwise; a caller at the acquire step or inside the body uses the
\* redis lock exactly when the store is the redis one, and a threading.Lock
\* exactly when it is the in-process one.
C20_VariantSelection ==
  CACHE_TYPE # "unset" =>
    /\ CACHE_TYPE = "RedisCache" <=> EnvVars \subseteq os_environ
    /\ CACHE_TYPE = "SimpleCache" <=> ~(EnvVars \subseteq os_environ)
    /\ \A t \in Threads :
         /\ pc[t] \in {"lookup", "create"} => CACHE_TYPE = "SimpleCache"
         /\ (pc[t] \in {"acquire", "body", "release"} /\ lock[t] # NoMutex)
              => CACHE_TYPE = "SimpleCache"
         /\ (pc[t] \in {"acquire", "body", "release"} /\ lock[t] = NoMutex)
              => CACHE_TYPE = "RedisCache"
         /\ \A k \in Keys : redis_lock[k] = t => CACHE_TYPE = "RedisCache"

\* Only one of the two variables is set, the store has been initialised and a
\* caller is inside the body holding a threading.Lock.
C20_Witness ==
  \E t \in Threads :
    /\ Cardinality(os_environ) = 1
    /\ CACHE_TYPE # "unset"
    /\ pc[t] = "body" /\ mutex_owner[lock[t]] = t

\* C18 (backend failure is surfaced): in the networked variant a caller leaves
\* the acquire step either into the body, and then it has just taken the lock
\* key, which was free, or with an error and the body not entered; the error
\* is LockError only if the lock was held and the caller's blocking_timeout
\* was used up, and otherwise it is the store's connection error, which is
\* neither LockError nor an exception of f.
C18_BackendFailureSurfaced ==
  [][\A t \in Threads :
       (redis_env /\ pc[t] = "acquire" /\ pc'[t] # "acquire") =>
         \/ /\ pc'[t] = "body" /\ acquired'[t] /\ exc'[t] = "none"
            /\ redis_lock[key[t]] = NoThread /\ redis_lock'[key[t]] = t
         \/ /\ pc'[t] = "done" /\ ~acquired'[t] /\ exc'[t] = "LockError"
            /\ redis_lock[key[t]] # NoThread
            /\ bt[t] # -1 /\ waited[t] >= bt[t]
            /\ UNCHANGED redis_lock
         \/ /\ pc'[t] = "done" /\ ~acquired'[t]
            /\ exc'[t] = "redis.ConnectionError"
            /\ UNCHANGED redis_lock]_vars

\* The store was out of reach for a caller whose lock was free: the caller is
\* back with the connection error, the body not entered, the lock key not set.
C18_Witness ==
  \E t \in Threads :
    /\ redis_env
    /\ pc[t] = "done" /\ exc[t] = "redis.ConnectionError" /\ ~acquired[t]
    /\ redis_lock[key[t]] = NoThread

C13_KeyOrderIndependence ==
  query_fn \in QueryFunctions =>
    query_key = query_cache_key(query_fn, <<>>, AsKeywords(query_fn, args, kwargs))

\* C14 (key value-sensitivity): when the call of a memoized query function is
\* changed so that a parameter other than the session gets another value, the
\* key changes.
C14_KeyValueSensitivity ==
  [][(query_fn \in QueryFunctions
        /\ Bind(query_fn, args', kwargs') # Bind(query_fn, args, kwargs))
       => query_key' # query_key]_vars

\* C15 (cacheability predicate): applied to a response with a status_code the
\* filter returns True if 200 <= status_code < 500 and False if not, and no
\* view holds a cached response whose status is outside that range.
C15_CacheabilityPredicate ==
  /\ (view_resp # NoValue /\ view_resp[1] = "resp" /\ filter_result # "hit") =>
       /\ filter_result \in {"True", "False"}
       /\ filter_result = "True" <=> (200 <= view_resp[2] /\ view_resp[2] < 500)
  /\ \A v \in Views :
       view_cache[v] # Miss =>
         (view_cache[v][1] = "resp" /\ 200 <= view_cache[v][2] /\ view_cache[v][2] < 500)

\* A handler has just answered 500 and the filter said False: its view has
\* nothing cached, while the other view holds a 499.
C15_Witness ==
  /\ view_resp = <<"resp", 500>>
  /\ filter_result = "False"
  /\ \E v, w \in Views : view_cache[v] = Miss /\ view_cache[w] = <<"resp", 499>>

\* C16 (TTL expiry): an entry set with a ttl is what get returns as long as
\* less than ttl has passed since the set, and get returns a miss from then
\* on; a decorated call that returns a cached value returns one younger than
\* its ttl.
C16_TtlExpiry ==
  /\ entry # Miss =>
       IF clock - entry[3] < entry[4]
         THEN store_get(entry, clock) = entry[2]
         ELSE store_get(entry, clock) = Miss
  /\ got[1] = "hit" => got[3] < got[4]

\* The entry has lapsed and still sits in the store, after a call had returned
\* it from the cache in time.
C16_Witness ==
  /\ entry # Miss
  /\ clock - entry[3] >= entry[4]
  /\ got[1] = "hit" /\ got[3] > 0

C23_RegistryEntryIsStable ==
  [][\A k \in Keys :
       IN_MEMORY_LOCKS[k] # NoMutex => IN_MEMORY_LOCKS'[k] = IN_MEMORY_LOCKS[k]]_vars

\* C27 (cache_clear affects cached values only): a call of the cache_clear
\* endpoint leaves every lock, of either variant, held by whoever held it, and
\* a caller in the body or at its release still owns the lock it acquired.
C27_ClearLeavesLocks ==
  [][cache_clear =>
       /\ UNCHANGED <<redis_lock, mutex_owner, IN_MEMORY_LOCKS>>
       /\ \A t \in Threads :
            (InBody(t) /\ redis_lock[key[t]] = t) => redis_lock'[key[t]] = t]_vars

\* The caller owns the lock it acquired for its call.
OwnsLock(t) ==
  IF has_redis_cache_env_vars THEN redis_lock[key[t]] = t
  ELSE mutex_owner[lock[t]] = t

\* C22 (f runs once, under the lock): in a decorated call f is executed only
\* by a caller that then holds the lock for the call's key, at most once per
\* call, and not again after it raised.
C22_ComputeOnceUnderLock ==
  [][\A t \in Threads :
       /\ (~ran_f[t] /\ ran_f'[t]) => (acquired[t] /\ OwnsLock(t))
       /\ (ran_f[t] /\ pc'[t] # "idle") =>
            (pc'[t] \notin {"body", "compute"} /\ ran_f'[t])
       /\ (exc[t] = "FError" /\ pc'[t] # "idle") => pc'[t] \in {"release", "done"}]_vars

\* C26 (return value without status_code): for a handler return value that
\* has no status_code the filter returns True and the value is cached.
C26_NoStatusCodeIsCacheable ==
  (view_resp # NoValue /\ view_resp[1] # "resp" /\ filter_result # "hit") =>
    filter_result = "True"

\* C21 as stated (no re-check after acquire): a decorated call that began
\* with its key missing from the cache and has acquired the lock executes f,
\* whatever another holder stored while it waited.
C21_NoRecheckAfterAcquire ==
  \A t \in Threads :
    (op[t] \in Decorated /\ ~hit_at_start[t] /\ acquired[t]
       /\ pc[t] \in {"release", "done"})
      => ran_f[t]

\* C21 (amended): a call of a memoize-wrapped function reads the cache once,
\* after it has acquired the lock: on a hit it returns the stored value and
\* does not execute f; f is executed only after that read found no value.
C21_CacheReadUnderLock ==
  [][\A t \in Threads :
       op[t] = "memoize" =>
         /\ (pc[t] = "body" /\ pc'[t] # "body") =>
              IF CacheHit(cache[key[t]])
                THEN pc'[t] = "release" /\ rv'[t] = cache[key[t]] /\ ~ran_f'[t]
                ELSE pc'[t] = "compute" /\ ~ran_f'[t]
         /\ (~ran_f[t] /\ ran_f'[t]) => pc[t] = "compute"]_vars

\* A caller began with its key missing, waited for the lock while another
\* caller computed and stored a value, and is leaving with that value, f not
\* executed.
C21_Witness ==
  \E t \in Threads :
    /\ op[t] = "memoize" /\ ~hit_at_start[t] /\ acquired[t]
    /\ pc[t] = "release" /\ ~ran_f[t] /\ exc[t] = "none"
    /\ rv[t] \in MemoValues /\ cache[key[t]] = rv[t]

\* C28 (only the holder releases): a caller whose acquisition failed, with
\* LockError or any other error, frees no lock and never reaches the release;
\* a caller that acquired reaches the end of its call only through the
\* release, once, and then holds nothing; its lock is freed by no other
\* caller's step, and a release leaves every lock held by another caller
\* with that caller.
C28_OnlyHolderReleases ==
  [][\A t \in Threads :
       /\ (pc[t] = "acquire" /\ pc'[t] = "done") =>
            (~acquired'[t] /\ UNCHANGED <<mutex_owner, redis_lock>>)
       /\ (pc[t] # "release" /\ pc'[t] = "release") => (pc[t] = "body" /\ acquired[t])
       /\ (pc[t] # "done" /\ pc'[t] = "done" /\ acquired[t]) => pc[t] = "release"
       /\ (pc[t] = "release" /\ pc'[t] # "release") =>
            /\ pc'[t] = "done"
            /\ acquired[t]
            /\ HoldsNothing(t)'
            /\ \A m \in Mutexes :
                 mutex_owner[m] \notin {t, NoThread} => mutex_owner'[m] = mutex_owner[m]
            /\ \A k \in Keys :
                 redis_lock[k] \notin {t, NoThread} => redis_lock'[k] = redis_lock[k]
       /\ \A m \in Mutexes :
            (mutex_owner[m] = t /\ mutex_owner'[m] # t) =>
              (pc[t] = "release" /\ pc'[t] = "done" /\ mutex_owner'[m] = NoThread)
       /\ \A k \in Keys :
            (redis_lock[k] = t /\ redis_lock'[k] # t /\ pc' # pc) =>
              (pc[t] = "release" /\ pc'[t] = "done" /\ redis_lock'[k] = NoThread)]_vars

\* A caller's lease ran out and another caller took the lock; the first
\* caller's release has run and the lock is still the other caller's, who is
\* in the body.
C28_Witness ==
  \E t, u \in Threads :
    /\ t # u
    /\ pc[t] = "done" /\ acquired[t]
    /\ key[u] = key[t] /\ InBody(u) /\ redis_lock[key[u]] = u

\* C24 (recompute after expiry): a call of a memoize-wrapped function made
\* once the entry of its key has lapsed executes f and overwrites the entry
\* with the new result, set at the time of the call with the call's timeout,
\* so that the store hands out the new result from then on.
C24_RecomputeAfterExpiry ==
  [][(entry # Miss /\ clock - entry[3] >= entry[4] /\ clock' = clock) =>
       /\ got'[1] = "computed"
       /\ entry' = <<"entry", got'[2], clock, got'[4], clock + got'[4]>>
       /\ entry'[5] > clock
       /\ store_get(entry', clock') = got'[2]]_vars

\* f has run for a key whose earlier entry had lapsed: the store holds the
\* new result, which differs from the old, and it has not lapsed.
C24_Witness ==
  /\ replaced # Miss
  /\ got[1] = "computed"
  /\ entry[2] = got[2] /\ entry[2] # replaced[2]
  /\ entry[3] >= replaced[5]
  /\ clock < entry[5]

\* C25 (independence of keys): callers of acquire_lock with different names
\* use different full lock names, and a caller waiting for a name that no
\* caller in the body has passed can take its lock at once, whoever holds
\* the locks of other names.
C25_KeyIndependence ==
  \A c \in Threads :
    /\ \A d \in Threads :
         (caller_pc[c] # "idle" /\ caller_pc[d] # "idle"
            /\ caller_name[c] # caller_name[d])
           => FullLockName(c) # FullLockName(d)
    /\ (caller_pc[c] = "acquire"
          /\ \A d \in Threads :
               caller_pc[d] = "body" => caller_name[d] # caller_name[c])
         => ENABLED AcquireLockTake(c)

\* Two callers are in the body at once, under different names, in a
\* deployment with a prefix.
C25_Witness ==
  \E c, d \in Threads :
    /\ deployment_prefix # None
    /\ caller_pc[c] = "body" /\ caller_pc[d] = "body"
    /\ caller_name[c] # caller_name[d]

\* C30 (initialised before use): once init_server has run init_cache, every
\* Cache instance a handler or memoized helper uses has been initialised,
\* and no request is served by a handler whose instance is not.
C30_InitialisedBeforeUse ==
  /\ CACHE_TYPE # "unset" => \A h \in HandlerNames : Handlers[h] \in initialised
  /\ \A h \in HandlerNames : served[h] # "uninitialised"

\* C29 (progress): with every with-body ending and a fair lock, every caller
\* that has entered acquire_lock with the default blocking_timeout gets the
\* lock, and every caller that has it comes back, whatever names the other
\* callers use.
C29_Progress ==
  \A c \in Threads :
    /\ (caller_pc[c] = "acquire") ~> (caller_pc[c] = "body")
    /\ (caller_pc[c] = "body") ~> (caller_pc[c] = "idle")

\* A caller waits for the lock of a name while another caller, which passed
\* the same name, is in the body.
C29_Witness ==
  \E c, d \in Threads :
    /\ caller_pc[c] = "acquire" /\ caller_pc[d] = "body"
    /\ caller_name[c] = caller_name[d]
    /\ FullLockName(c) \in locked

====
